---- MODULE Spec2Model ----
(***************************************************************************)
(* Event-to-angle detection pipeline of the DVS wheel-position detector:   *)
(* utils.slice_every_events, utils._build_image / _activate_pixels,        *)
(* utils.detect_line_angle (around cv2.HoughLines) and the slice loop of   *)
(* detect_wheel_position.py.                                               *)
(*                                                                         *)
(* Conventions                                                             *)
(*  - Python's None is the empty tuple; an angle is a 1-tuple <<deg>> and  *)
(*    line parameters are a 2-tuple <<rho, theta>>.                        *)
(*  - A call returns [exc |-> "", val |-> v] or raises: [exc |-> name].    *)
(*  - Angles in radians are integers in units of pi/PiUnits, so that the   *)
(*    angles of the trigonometric table are exact.  rho of a line is kept  *)
(*    in half pixels (OpenCV yields multiples of 0.5 * rho step).          *)
(***************************************************************************)
EXTENDS Integers, Sequences, FiniteSets, TLC

VARIABLES
    pc,                     \* position of the running script / call
    error,                  \* name of the exception that ended the run, or ""
    resolution,             \* source_resolution: <<width, height>>
    source_events,          \* the event store read from the recording
    events_per_slice,       \* args.events_per_slice
    rho,                    \* args.rho      (rho step, pixels)
    theta,                  \* args.theta    (theta step, units of pi/PiUnits)
    threshold,              \* args.threshold
    detect_wheel_position,  \* args.detect_wheel_position
    slices,                 \* list returned by slice_every_events
    i,                      \* loop index of enumerate(slices)
    s,                      \* loop variable: the slice being processed
    angle,                  \* angle returned for the current slice
    line_params,            \* line parameters returned for the current slice
    detected_angles,        \* dict, as the list of its <<key, value>> items
    image,                  \* the grid built by the last _build_image call
    rendered,               \* calls made to display_events_and_line
    csv,                    \* rows handed to save_dict_to_csv, None before
    tasks,                  \* pool: per slice index, the state of its detect_line_angle call
    reordered,              \* pool: a call started before one of a lower slice index
    merged                  \* pool: the results merged by slice index, None before

vars == <<pc, error, resolution, source_events, events_per_slice, rho, theta,
          threshold, detect_wheel_position, slices, i, s, angle, line_params,
          detected_angles, image, rendered, csv, tasks, reordered, merged>>

(***************************************************************************)
(* Bounds of the model.                                                    *)
(***************************************************************************)
MaxDim == 2             \* detector: width and height range over 1..MaxDim
MaxSliceLen == 3        \* detector: events in the slice handed to a call
MaxThreshold == 3       \* detector: vote thresholds range over -1..MaxThreshold
MaxRasterDim == 2       \* rasterizer: width and height range over 1..MaxRasterDim
MaxRasterLen == 2       \* rasterizer: events in the slice
MaxPipeDim == 2         \* pipeline: width and height range over -1..MaxPipeDim
MaxEvents == 4          \* pipeline: events in the recording
MaxPerSlice == 3        \* pipeline: events_per_slice is -1 or in 1..MaxPerSlice

PiUnits == 4            \* np.pi, in the unit of the angles (pi/4 rad)

None == <<>>
Raise(e) == [exc |-> e]
Return(v) == [exc |-> "", val |-> v]

SeqsUpTo(S, n) == UNION {[1..m -> S] : m \in 0..n}

(***************************************************************************)
(* utils.event_store_to_array: each event becomes the row [x, y].          *)
(***************************************************************************)
event_store_to_array(event_store) ==
    [j \in 1..Len(event_store) |-> <<event_store[j].x, event_store[j].y>>]

(***************************************************************************)
(* dv.EventStreamSlicer with one doEveryNumberOfEvents(n, callback) job,   *)
(* fed by accept(packet): the job's loop calls the callback with the next  *)
(* n events as long as n events that were not yet delivered are stored.    *)
(***************************************************************************)
\* a slicer that also delivers the events left over at the end of the store
RECURSIVE C1_SlicerRunFlush(_, _, _, _)
C1_SlicerRunFlush(packet, lastCallEnd, n, out) ==
    IF Len(packet) - lastCallEnd >= n
    THEN C1_SlicerRunFlush(packet, lastCallEnd + n, n,
                   Append(out, event_store_to_array(
                                   SubSeq(packet, lastCallEnd + 1, lastCallEnd + n))))
    ELSE IF Len(packet) > lastCallEnd
    THEN Append(out, event_store_to_array(SubSeq(packet, lastCallEnd + 1, Len(packet))))
    ELSE out

RECURSIVE SlicerRun(_, _, _, _)
SlicerRun(packet, lastCallEnd, n, out) ==
    IF Len(packet) - lastCallEnd >= n
    THEN SlicerRun(packet, lastCallEnd + n, n,
                   Append(out, event_store_to_array(
                                   SubSeq(packet, lastCallEnd + 1, lastCallEnd + n))))
    ELSE out

(***************************************************************************)
(* utils.slice_every_events.  The binding takes the count as an unsigned   *)
(* integer: a negative count is refused with TypeError.  What the slicer   *)
(* does with a count of 0 is not decided by this repository; the runs of   *)
(* the model leave that count out.                                         *)
(***************************************************************************)
slice_every_events(events, k) ==
    IF k < 0 THEN Raise("TypeError")
    ELSE Return(SlicerRun(events, 0, k, <<>>))

(***************************************************************************)
(* numpy indexing of an axis of length n: negative indices count from the  *)
(* end; anything outside [-n, n) is an IndexError.                         *)
(***************************************************************************)
InBounds(idx, n) == -n <= idx /\ idx < n
NormIndex(idx, n) == IF idx < 0 THEN idx + n ELSE idx

Rows(img) == Len(img)
Cols(img) == IF Len(img) = 0 THEN 0 ELSE Len(img[1])
\* img[y, x] for 0-based in-range y, x
Cell(img, y, x) == img[y + 1][x + 1]

np_zeros(h, w) == [y \in 1..h |-> [x \in 1..w |-> 0]]

\* a store that flips the cell instead of setting it
C3_SetCellFlip(img, y, x, v) ==
    [img EXCEPT ![NormIndex(y, Rows(img)) + 1][NormIndex(x, Cols(img)) + 1] =
                    IF @ = 0 THEN v ELSE 0]

SetCell(img, y, x, v) ==
    [img EXCEPT ![NormIndex(y, Rows(img)) + 1][NormIndex(x, Cols(img)) + 1] = v]

(***************************************************************************)
(* utils._activate_pixels: for x, y in events: image[y, x] = 255.          *)
(***************************************************************************)
RECURSIVE _activate_pixels(_, _)
_activate_pixels(empty_image, events) ==
    IF events = <<>> THEN Return(empty_image)
    ELSE LET x == events[1][1]
             y == events[1][2]
         IN IF InBounds(y, Rows(empty_image)) /\ InBounds(x, Cols(empty_image))
            THEN _activate_pixels(SetCell(empty_image, y, x, 255), Tail(events))
            ELSE Raise("IndexError")

\* _build_image on a grid kept from the previous call and never cleared
C11_build_image_kept(res, events) ==
    IF res[1] < 0 \/ res[2] < 0 THEN Raise("ValueError")
    ELSE _activate_pixels(IF image # <<>> THEN image ELSE np_zeros(res[2], res[1]),
                          events)

(***************************************************************************)
(* utils._build_image: np.zeros((resolution[1], resolution[0])) refuses a  *)
(* negative dimension with ValueError.                                     *)
(***************************************************************************)
_build_image(res, events) ==
    IF res[1] < 0 \/ res[2] < 0 THEN Raise("ValueError")
    ELSE _activate_pixels(np_zeros(res[2], res[1]), events)

(***************************************************************************)
(* cv2.HoughLines(image, rho, theta, threshold), the standard transform    *)
(* with min_theta = 0 and max_theta = pi.                                  *)
(***************************************************************************)

\* cvRound(a / b) for b > 0: to the nearest integer, ties to the even one
cvRound(a, b) ==
    LET q == a \div b
        r == a % b
    IN IF 2 * r < b THEN q
       ELSE IF 2 * r > b THEN q + 1
       ELSE IF q % 2 = 0 THEN q ELSE q + 1

\* 10000 * cos and 10000 * sin of the angle u * pi / PiUnits
Cos10k(u) ==
    CASE u % 8 = 0 -> 10000 [] u % 8 = 1 -> 7071  [] u % 8 = 2 -> 0
      [] u % 8 = 3 -> -7071 [] u % 8 = 4 -> -10000 [] u % 8 = 5 -> -7071
      [] u % 8 = 6 -> 0     [] OTHER -> 7071
Sin10k(u) ==
    CASE u % 8 = 0 -> 0     [] u % 8 = 1 -> 7071  [] u % 8 = 2 -> 10000
      [] u % 8 = 3 -> 7071  [] u % 8 = 4 -> 0     [] u % 8 = 5 -> -7071
      [] u % 8 = 6 -> -10000 [] OTHER -> -7071

\* computeNumangle(0, pi, theta_step): floor(pi / step) + 1 angles, the last
\* one dropped when it is within half a step of pi (the line of angle 0)
computeNumangle(theta_step) ==
    LET numangle == (PiUnits \div theta_step) + 1
        d == PiUnits - (numangle - 1) * theta_step
        dist == IF d < 0 THEN 0 - d ELSE d
    IN IF numangle > 1 /\ 2 * dist < theta_step THEN numangle - 1 ELSE numangle

\* numrho = cvRound(((max_rho - min_rho) + 1) / rho), max_rho = width + height
computeNumrho(img, rho_step) ==
    cvRound(2 * (Cols(img) + Rows(img)) + 1, rho_step)

\* the pixels of the image that are not zero, as <<row, column>>
OnPixels(img) ==
    {p \in (0..(Rows(img) - 1)) \X (0..(Cols(img) - 1)) : Cell(img, p[1], p[2]) # 0}

\* the rho bin pixel (row y, column x) votes for at angle index n:
\* r = cvRound(x * tabCos[n] + y * tabSin[n]) + (numrho - 1) / 2
RhoBin(y, x, n, rho_step, theta_step, numrho) ==
    cvRound(x * Cos10k(n * theta_step) + y * Sin10k(n * theta_step), 10000 * rho_step)
        + ((numrho - 1) \div 2)

\* stage 1: the accumulator, one vote of every on-pixel per angle index
\* (accum[...]++ for each on-pixel and each n), as the table of the counts
Accumulator(img, rho_step, theta_step) ==
    LET numangle == computeNumangle(theta_step)
        numrho == computeNumrho(img, rho_step)
        on == OnPixels(img)
        votes == {<<p, n, RhoBin(p[1], p[2], n, rho_step, theta_step, numrho)>> :
                      p \in on, n \in 0..(numangle - 1)}
    IN [c \in (0..(numangle - 1)) \X (0..(numrho - 1)) |->
           Cardinality({v \in votes : v[2] = c[1] /\ v[3] = c[2]})]
       @@ [c \in {} |-> 0]

\* the accumulator is stored with a border of zero cells around it
Accum(acc, n, r) == IF <<n, r>> \in DOMAIN acc THEN acc[<<n, r>>] ELSE 0

\* position of cell (n, r) in the stored accumulator
Base(n, r, numrho) == (n + 1) * (numrho + 2) + r + 1

\* a stage 2 whose comparisons with the neighbours all admit equality
C5_LocalMaximumsNonStrict(acc, thr) ==
    {c \in DOMAIN acc :
        /\ acc[c] > thr
        /\ acc[c] >= Accum(acc, c[1], c[2] - 1)
        /\ acc[c] >= Accum(acc, c[1], c[2] + 1)
        /\ acc[c] >= Accum(acc, c[1] - 1, c[2])
        /\ acc[c] >= Accum(acc, c[1] + 1, c[2])}

\* stage 2: the local maximums above the threshold
LocalMaximums(acc, thr) ==
    {c \in DOMAIN acc :
        /\ acc[c] > thr
        /\ acc[c] > Accum(acc, c[1], c[2] - 1)
        /\ acc[c] >= Accum(acc, c[1], c[2] + 1)
        /\ acc[c] > Accum(acc, c[1] - 1, c[2])
        /\ acc[c] >= Accum(acc, c[1] + 1, c[2])}

\* an order that puts the later of two cells with equal votes first
C10_hough_cmp_later(acc, numrho, l1, l2) ==
    \/ acc[l1] > acc[l2]
    \/ acc[l1] = acc[l2] /\ Base(l1[1], l1[2], numrho) > Base(l2[1], l2[2], numrho)

\* stage 3: hough_cmp_gt, the order the detected cells are sorted by
hough_cmp_gt(acc, numrho, l1, l2) ==
    \/ acc[l1] > acc[l2]
    \/ acc[l1] = acc[l2] /\ Base(l1[1], l1[2], numrho) < Base(l2[1], l2[2], numrho)

\* stage 4: the sorted cells as lines (rho in half pixels, theta); only the
\* first line is read by the caller.  An empty result is None in Python.
SortedLines(acc, numrho, rho_step, theta_step, thr) ==
    LET found == LocalMaximums(acc, thr)
    IN IF found = {} THEN None
       ELSE LET first == CHOOSE c \in found :
                            \A d \in found \ {c} : hough_cmp_gt(acc, numrho, c, d)
            IN << <<(2 * first[2] - (numrho - 1)) * rho_step, first[1] * theta_step>> >>

HoughLines(img, rho_step, theta_step, thr) ==
    CHOOSE lines \in {SortedLines(acc, computeNumrho(img, rho_step), rho_step, theta_step, thr) :
                         acc \in {Accumulator(img, rho_step, theta_step)}} : TRUE

\* a conversion with the factor upside down: theta * (np.pi / 180)
C9_angle_times_pi_over_180(th) == (th * PiUnits) \div 180

\* theta * (180 / np.pi)
angle_in_degrees(th) == (th * 180) \div PiUnits

(***************************************************************************)
(* utils.detect_line_angle                                                 *)
(***************************************************************************)
detect_line_angle(res, events, rho_step, theta_step, thr) ==
    LET Detected(built) ==
            IF built.exc # "" THEN built
            ELSE LET lines == HoughLines(built.val, rho_step, theta_step, thr)
                 IN IF lines # None
                    THEN Return(<< <<angle_in_degrees(lines[1][2])>>, lines[1] >>)
                    ELSE Return(<<None, None>>)
    IN CHOOSE r \in {Detected(built) : built \in {_build_image(res, events)}} : TRUE

(***************************************************************************)
(* dict[key] = value on a dict kept as the list of its items: an existing  *)
(* key keeps its place, a new key goes last.                               *)
(***************************************************************************)
DictKeys(d) == {d[j][1] : j \in 1..Len(d)}
\* an assignment that rebuilds the dict around the one item
C2_DictSetRebuilt(d, key, value) == << <<key, value>> >>

DictSet(d, key, value) ==
    IF key \in DictKeys(d)
    THEN [j \in 1..Len(d) |-> IF d[j][1] = key THEN <<key, value>> ELSE d[j]]
    ELSE Append(d, <<key, value>>)

(***************************************************************************)
(* detect_wheel_position.display_events_and_line: unpacking the zipped     *)
(* events into x, y fails when there is no event; line_parameters of None  *)
(* draws no line.  The figure is the call's only effect.                   *)
(***************************************************************************)
\* a renderer that unpacks rho, theta without looking for None first
C6_display_unpacks_line(res, events, line_parameters, image_path) ==
    IF Len(events) = 0 THEN Raise("ValueError")
    ELSE IF line_parameters = None THEN Raise("TypeError")
    ELSE Return([events |-> events, line |-> line_parameters, image_path |-> image_path])

display_events_and_line(res, events, line_parameters, image_path) ==
    IF Len(events) = 0 THEN Raise("ValueError")
    ELSE Return([events |-> events,
                 line |-> IF line_parameters # None THEN line_parameters ELSE None,
                 image_path |-> image_path])

(***************************************************************************)
(* utils.save_dict_to_csv: one row [key, value] per item, in dict order.   *)
(***************************************************************************)
save_dict_to_csv(data) == [j \in 1..Len(data) |-> <<data[j][1], data[j][2]>>]

(***************************************************************************)
(* The script detect_wheel_position.py, from the call of                   *)
(* slice_every_events on.                                                  *)
(***************************************************************************)

\* the events of the recordings of the pipeline runs
PipeEvents == {[x |-> 0, y |-> 0], [x |-> 1, y |-> 0], [x |-> 1, y |-> 1]}
PipeThresholds == {0, 1}
PipePerSlice == {-1} \cup (1..MaxPerSlice)

Init ==
    /\ pc = "slice"
    /\ error = ""
    /\ resolution \in (-1..MaxPipeDim) \X (-1..MaxPipeDim)
    /\ source_events \in SeqsUpTo(PipeEvents, MaxEvents)
    /\ events_per_slice \in PipePerSlice
    /\ rho = 1
    /\ theta = 2
    /\ threshold \in PipeThresholds
    /\ detect_wheel_position \in BOOLEAN
    /\ slices = <<>>
    /\ i = 0
    /\ s = <<>>
    /\ angle = None
    /\ line_params = None
    /\ detected_angles = <<>>
    /\ image = <<>>
    /\ rendered = <<>>
    /\ csv = None
    /\ tasks = <<>>
    /\ reordered = FALSE
    /\ merged = None

\* line 177: slices = utils.slice_every_events(source_events, args.events_per_slice)
Slice ==
    /\ pc = "slice"
    /\ \E r \in {slice_every_events(source_events, events_per_slice)} :
          IF r.exc # ""
          THEN /\ pc' = "raised"
               /\ error' = r.exc
               /\ UNCHANGED slices
          ELSE /\ pc' = "branch"
               /\ slices' = r.val
               /\ UNCHANGED error
    /\ UNCHANGED <<resolution, source_events, events_per_slice, rho, theta, threshold,
                   detect_wheel_position, i, s, angle, line_params, detected_angles,
                   image, rendered, csv>>
    /\ UNCHANGED <<tasks, reordered, merged>>

\* lines 179-180: if args.detect_wheel_position: detected_angles = {}
Branch ==
    /\ pc = "branch"
    /\ IF detect_wheel_position
       THEN pc' = "loop" /\ detected_angles' = <<>>
       ELSE pc' = "done" /\ UNCHANGED detected_angles
    /\ UNCHANGED <<error, resolution, source_events, events_per_slice, rho, theta,
                   threshold, detect_wheel_position, slices, i, s, angle, line_params,
                   image, rendered, csv>>
    /\ UNCHANGED <<tasks, reordered, merged>>

\* lines 182-184: the next (i, s) of enumerate(slices), detect_line_angle and
\* detected_angles[i] = angle
Detect ==
    /\ pc = "loop"
    /\ i < Len(slices)
    /\ s' = slices[i + 1]
    /\ \E r \in {detect_line_angle(resolution, s', rho, theta, threshold)} :
          IF r.exc # ""
          THEN /\ pc' = "raised"
               /\ error' = r.exc
               /\ UNCHANGED <<angle, line_params, detected_angles>>
          ELSE /\ pc' = "render"
               /\ angle' = r.val[1]
               /\ line_params' = r.val[2]
               /\ detected_angles' = DictSet(detected_angles, i, r.val[1])
               /\ UNCHANGED error
    /\ UNCHANGED <<resolution, source_events, events_per_slice, rho, theta, threshold,
                   detect_wheel_position, slices, i, image, rendered, csv>>
    /\ UNCHANGED <<tasks, reordered, merged>>

\* lines 185-191: display_events_and_line(source_resolution, s, line_params, ...)
Render ==
    /\ pc = "render"
    /\ \E r \in {display_events_and_line(resolution, s, line_params, i)} :
          IF r.exc # ""
          THEN /\ pc' = "raised"
               /\ error' = r.exc
               /\ UNCHANGED <<rendered, i>>
          ELSE /\ pc' = "loop"
               /\ rendered' = Append(rendered, r.val)
               /\ i' = i + 1
               /\ UNCHANGED error
    /\ UNCHANGED <<resolution, source_events, events_per_slice, rho, theta, threshold,
                   detect_wheel_position, slices, s, angle, line_params,
                   detected_angles, image, csv>>
    /\ UNCHANGED <<tasks, reordered, merged>>

\* line 193: utils.save_dict_to_csv(detected_angles, ...) once the loop is over
Export ==
    /\ pc = "loop"
    /\ i >= Len(slices)
    /\ csv' = save_dict_to_csv(detected_angles)
    /\ pc' = "done"
    /\ UNCHANGED <<error, resolution, source_events, events_per_slice, rho, theta,
                   threshold, detect_wheel_position, slices, i, s, angle, line_params,
                   detected_angles, image, rendered>>
    /\ UNCHANGED <<tasks, reordered, merged>>

Next == Slice \/ Branch \/ Detect \/ Render \/ Export

Spec == Init /\ [][Next]_vars

(***************************************************************************)
(* One call of utils._build_image on any slice of integer coordinates,     *)
(* in or out of the resolution.                                            *)
(***************************************************************************)
InitCall ==
    /\ pc = "call"
    /\ error = ""
    /\ source_events = <<>>
    /\ events_per_slice = 1
    /\ detect_wheel_position = TRUE
    /\ slices = <<>>
    /\ i = 0
    /\ angle = None
    /\ line_params = None
    /\ detected_angles = <<>>
    /\ image = <<>>
    /\ rendered = <<>>
    /\ csv = None
    /\ tasks = <<>>
    /\ reordered = FALSE
    /\ merged = None

InitRaster ==
    /\ InitCall
    /\ resolution \in (1..MaxRasterDim) \X (1..MaxRasterDim)
    /\ s \in SeqsUpTo(((0 - resolution[1] - 1)..resolution[1])
                          \X ((0 - resolution[2] - 1)..resolution[2]), MaxRasterLen)
    /\ rho = 1
    /\ theta = 1
    /\ threshold = 1

\* image = _build_image(resolution, events)
BuildImage ==
    /\ pc = "call"
    /\ \E r \in {_build_image(resolution, s)} :
          IF r.exc # ""
          THEN pc' = "raised" /\ error' = r.exc /\ UNCHANGED image
          ELSE pc' = "returned" /\ image' = r.val /\ UNCHANGED error
    /\ UNCHANGED <<resolution, source_events, events_per_slice, rho, theta, threshold,
                   detect_wheel_position, slices, i, s, angle, line_params,
                   detected_angles, rendered, csv>>
    /\ UNCHANGED <<tasks, reordered, merged>>

NextRaster == BuildImage

SpecRaster == InitRaster /\ [][NextRaster]_vars

(***************************************************************************)
(* One call of utils.detect_line_angle on a slice of events inside the     *)
(* resolution, for every rho step, theta step and threshold.               *)
(***************************************************************************)
\* rho steps in pixels; theta steps in units of pi/PiUnits (45 and 90 degrees)
RhoSteps == {1, 2}
ThetaSteps == {1, 2}

InitDetect ==
    /\ InitCall
    /\ resolution \in (1..MaxDim) \X (1..MaxDim)
    /\ s \in SeqsUpTo((0..(resolution[1] - 1)) \X (0..(resolution[2] - 1)), MaxSliceLen)
    /\ rho \in RhoSteps
    /\ theta \in ThetaSteps
    /\ threshold \in -1..MaxThreshold

\* angle, line_params = detect_line_angle(resolution, events, rho, theta, threshold);
\* image is the grid the call built
DetectLineAngle ==
    /\ pc = "call"
    /\ \E r \in {detect_line_angle(resolution, s, rho, theta, threshold)} :
          IF r.exc # ""
          THEN /\ pc' = "raised"
               /\ error' = r.exc
               /\ UNCHANGED <<angle, line_params, image>>
          ELSE /\ pc' = "returned"
               /\ angle' = r.val[1]
               /\ line_params' = r.val[2]
               /\ image' = _build_image(resolution, s).val
               /\ UNCHANGED error
    /\ UNCHANGED <<resolution, source_events, events_per_slice, rho, theta, threshold,
                   detect_wheel_position, slices, i, s, detected_angles, rendered, csv>>
    /\ UNCHANGED <<tasks, reordered, merged>>

NextDetect == DetectLineAngle

SpecDetect == InitDetect /\ [][NextDetect]_vars

(***************************************************************************)
(* The calls of the slice loop made by a pool of workers instead: after    *)
(* the script's own run, detect_line_angle is called once per slice index, *)
(* the calls starting in any order and their steps interleaving, each call *)
(* with its own local grid; the results are then put together by slice     *)
(* index.  image is the grid the latest _build_image call returned.        *)
(***************************************************************************)
PoolIndices == 0..(Len(slices) - 1)

\* <<width, height>>: one resolution some of PipeEvents fall out of, one that
\* holds them all
PoolResolutions == {<<1, 2>>, <<2, 2>>}

InitPool == Init /\ resolution \in PoolResolutions

\* the calls of lines 182-183, none started yet
StartPool ==
    /\ detect_wheel_position
    /\ \/ pc = "done"
       \/ pc = "raised" /\ error \in {"IndexError", "ValueError"}
    /\ pc' = "pool"
    /\ tasks' = [j \in PoolIndices |-> [stage |-> "todo", image |-> <<>>, angle |-> None]]
    /\ UNCHANGED <<error, resolution, source_events, events_per_slice, rho, theta,
                   threshold, detect_wheel_position, slices, i, s, angle, line_params,
                   detected_angles, image, rendered, csv, reordered, merged>>

\* utils.py line 227 in the call for slice j: image = _build_image(resolution, events)
TaskBuild(j) ==
    /\ pc = "pool"
    /\ tasks[j].stage = "todo"
    /\ \E r \in {_build_image(resolution, slices[j + 1])} :
          IF r.exc # ""
          THEN /\ tasks' = [tasks EXCEPT ![j].stage = "raised"]
               /\ UNCHANGED image
          ELSE /\ tasks' = [tasks EXCEPT ![j].stage = "built", ![j].image = r.val]
               /\ image' = r.val
    /\ reordered' = (reordered \/ \E l \in PoolIndices : l < j /\ tasks[l].stage = "todo")
    /\ UNCHANGED <<pc, error, resolution, source_events, events_per_slice, rho, theta,
                   threshold, detect_wheel_position, slices, i, s, angle, line_params,
                   detected_angles, rendered, csv, merged>>

\* utils.py lines 229-236 in the call for slice j: HoughLines on the call's own
\* grid, then the angle of lines[0] or None; the grid goes away with the call
TaskLines(j) ==
    /\ pc = "pool"
    /\ tasks[j].stage = "built"
    /\ \E lines \in {HoughLines(tasks[j].image, rho, theta, threshold)} :
          tasks' = [tasks EXCEPT
                       ![j] = [stage |-> "done",
                               image |-> <<>>,
                               angle |-> IF lines # None
                                         THEN <<angle_in_degrees(lines[1][2])>>
                                         ELSE None]]
    /\ UNCHANGED <<pc, error, resolution, source_events, events_per_slice, rho, theta,
                   threshold, detect_wheel_position, slices, i, s, angle, line_params,
                   detected_angles, image, rendered, csv, reordered, merged>>

\* detect_wheel_position.py line 184 for every call: the angle of the call for
\* slice j stored under key j, the keys in slice order
Merge ==
    /\ pc = "pool"
    /\ \A j \in PoolIndices : tasks[j].stage = "done"
    /\ merged' = [n \in 1..Len(slices) |-> <<n - 1, tasks[n - 1].angle>>]
    /\ pc' = "merged"
    /\ UNCHANGED <<error, resolution, source_events, events_per_slice, rho, theta,
                   threshold, detect_wheel_position, slices, i, s, angle, line_params,
                   detected_angles, image, rendered, csv, tasks, reordered>>

NextPool ==
    \/ Next
    \/ StartPool
    \/ \E j \in PoolIndices : TaskBuild(j)
    \/ \E j \in PoolIndices : TaskLines(j)
    \/ Merge

SpecPool == InitPool /\ [][NextPool]_vars

(***************************************************************************)
(* Properties of the script (specification Spec).                          *)
(***************************************************************************)
RECURSIVE Concat(_)
Concat(ss) == IF ss = <<>> THEN <<>> ELSE ss[1] \o Concat(Tail(ss))

CeilDiv(n, k) == (n + k - 1) \div k

\* slice_every_events has returned its list
SliceReturned ==
    \/ pc \in {"branch", "loop", "render", "done"}
    \/ pc = "raised" /\ error \in {"IndexError", "ValueError"}

\* C1, as stated: for positive events_per_slice k and N events, the slicer
\* produces ceil(N/k) slices whose concatenation is the whole event sequence
\* (read on the runs whose resolution is valid).
C1_CeilSlicesLossless ==
    (SliceReturned /\ events_per_slice > 0 /\ resolution[1] > 0 /\ resolution[2] > 0) =>
        /\ Len(slices) = CeilDiv(Len(source_events), events_per_slice)
        /\ Concat(slices) = event_store_to_array(source_events)

\* C1, amended: for positive k and N events, the slicer produces floor(N/k)
\* slices of exactly k events each, whose concatenation is the first
\* k * floor(N/k) events in order; the last N mod k events are in no slice.
C1_FloorSlicesPrefix ==
    (SliceReturned /\ events_per_slice > 0) =>
        LET N == Len(source_events)
            k == events_per_slice
        IN /\ Len(slices) = N \div k
           /\ \A j \in 1..Len(slices) : Len(slices[j]) = k
           /\ Concat(slices) = SubSeq(event_store_to_array(source_events), 1, k * (N \div k))

\* C1, witness: slices were produced from a store whose length is not a
\* multiple of k.
C1_Witness ==
    /\ SliceReturned
    /\ events_per_slice > 1
    /\ Len(slices) >= 1
    /\ Len(source_events) % events_per_slice # 0

\* the number of slices whose angle has been stored
Processed == IF pc = "render" THEN i + 1 ELSE i

\* C2: during and after the slice loop detected_angles holds one item per
\* slice processed so far, with the keys 0..n-1 in slice order, the value of
\* key j being the angle detect_line_angle returns for slice j; when the loop
\* is over there is one item per slice.
C2_AngleSeriesPerSlice ==
    (\/ pc \in {"loop", "render"}
     \/ pc = "done" /\ detect_wheel_position
     \/ pc = "raised" /\ error \in {"IndexError", "ValueError"}) =>
        /\ Len(detected_angles) = Processed
        /\ \A j \in 1..Len(detected_angles) :
              detected_angles[j] =
                  <<j - 1, detect_line_angle(resolution, slices[j], rho, theta,
                                             threshold).val[1]>>
        /\ pc = "done" => Len(detected_angles) = Len(slices)

\* C2, witness: a finished run over several slices with different results.
C2_Witness ==
    /\ pc = "done"
    /\ Len(detected_angles) >= 2
    /\ detected_angles[1][2] # detected_angles[2][2]

\* C6, state part: a slice without a line has None stored at its index, and a
\* finished run hands one row per slice to the CSV export.
C6_NoLineRecorded ==
    /\ (pc = "render" /\ line_params = None) =>
           (angle = None /\ detected_angles[i + 1] = <<i, None>>)
    /\ (pc = "done" /\ detect_wheel_position) =>
           (csv = detected_angles /\ Len(csv) = Len(slices))

\* C6, step part: the rendering of a slice without a line is performed, with
\* no line, and the loop goes on to the next slice.
C6_NoLineStep ==
    (pc = "render" /\ line_params = None) =>
        /\ pc' = "loop"
        /\ i' = i + 1
        /\ rendered' = Append(rendered, [events |-> s, line |-> None, image_path |-> i])

\* C6: a slice in which no line is detected never aborts the run: None is
\* recorded at its index, it is rendered without a line, the loop continues
\* and the finished run exports the complete series.
C6_NoLineNeverAborts == []C6_NoLineRecorded /\ [][C6_NoLineStep]_vars

\* C6, witness: a finished run in which a slice without a line is followed by
\* a slice with a line.
C6_Witness ==
    /\ pc = "done"
    /\ \E j \in 1..(Len(csv) - 1) : csv[j][2] = None /\ csv[j + 1][2] # None
    /\ Len(rendered) = Len(slices)

\* C8, as stated: with events_per_slice <= 0 or a resolution dimension <= 0
\* the run fails before any slice is produced, rasterized, detected, rendered
\* or exported.
C8_InvalidConfigFailsFast ==
    (events_per_slice <= 0 \/ resolution[1] <= 0 \/ resolution[2] <= 0) =>
        \/ pc = "slice"
        \/ pc = "raised" /\ slices = <<>> /\ detected_angles = <<>> /\ rendered = <<>>

(***************************************************************************)
(* Properties of _build_image (specification SpecRaster).                  *)
(***************************************************************************)
InRange(res, events) ==
    \A j \in 1..Len(events) :
        /\ 0 <= events[j][1] /\ events[j][1] < res[1]
        /\ 0 <= events[j][2] /\ events[j][2] < res[2]

RECURSIVE Dedup(_)
Dedup(events) ==
    IF events = <<>> THEN <<>>
    ELSE LET rest == Dedup(SubSeq(events, 1, Len(events) - 1))
             last == events[Len(events)]
         IN IF \E j \in 1..Len(rest) : rest[j] = last THEN rest ELSE Append(rest, last)

\* C3: for a slice whose events all lie inside the resolution (w, h),
\* _build_image returns a grid of h rows and w columns in which cell (y, x) is
\* set (255) iff an event of the slice is at (x, y) and every other cell is 0;
\* the grid is that of the slice without its duplicate events.
C3_CellSetIffEvent ==
    (pc # "call" /\ InRange(resolution, s)) =>
        /\ pc = "returned"
        /\ Rows(image) = resolution[2]
        /\ \A y \in 0..(resolution[2] - 1) :
              /\ Len(image[y + 1]) = resolution[1]
              /\ \A x \in 0..(resolution[1] - 1) :
                    /\ Cell(image, y, x) \in {0, 255}
                    /\ Cell(image, y, x) = 255 <=> \E j \in 1..Len(s) : s[j] = <<x, y>>
        /\ image = _build_image(resolution, Dedup(s)).val

\* C3, witness: the grid of a slice inside the resolution that holds the same
\* coordinate twice.
C3_Witness ==
    /\ pc = "returned"
    /\ InRange(resolution, s)
    /\ Len(s) = 2
    /\ s[1] = s[2]
    /\ resolution[1] > 1

\* C7, as stated: rasterizing a slice with an event outside [0,w)x[0,h) fails
\* or leaves that event out: every cell that ends up set is the cell of an
\* event inside the resolution.
C7_OutOfRangeSetsNoCell ==
    (pc # "call" /\ ~InRange(resolution, s)) =>
        \/ pc = "raised"
        \/ /\ pc = "returned"
           /\ \A y \in 0..(Rows(image) - 1), x \in 0..(Cols(image) - 1) :
                 Cell(image, y, x) # 0 => \E j \in 1..Len(s) : s[j] = <<x, y>>

(***************************************************************************)
(* Properties of detect_line_angle (specification SpecDetect).             *)
(***************************************************************************)
SetMax(S) == CHOOSE m \in S : \A n \in S : n <= m

\* the votes of the best accumulator bin of the grid the call built
BestVotes ==
    LET acc == Accumulator(image, rho, theta)
    IN SetMax({acc[c] : c \in DOMAIN acc})

\* C4, as stated: for a threshold t >= 1, a slice whose best bin gets t - 1
\* votes gives (None, None) and a slice whose best bin gets exactly t votes
\* gives that line.
C4_ThresholdBoundary ==
    (pc = "returned" /\ threshold >= 1) =>
        /\ BestVotes = threshold - 1 => (angle = None /\ line_params = None)
        /\ BestVotes = threshold => line_params # None

\* C5: whatever the resolution and the threshold, detect_line_angle on a slice
\* that gives an all-zero grid returns (None, None).
C5_EmptyGridNoLine ==
    (pc # "call" /\ (s = <<>> \/ OnPixels(image) = {})) =>
        /\ pc = "returned"
        /\ OnPixels(image) = {}
        /\ angle = None
        /\ line_params = None

\* C5, witness: the call on an empty slice with a threshold below zero.
C5_Witness ==
    /\ pc = "returned"
    /\ s = <<>>
    /\ threshold < 0
    /\ resolution = <<MaxDim, MaxDim>>

\* C9: detect_line_angle returns (theta * 180 / pi, (rho, theta)) or
\* (None, None): the angle is None iff the line parameters are, and a line
\* found has theta in [0, pi) and the angle in [0, 180).
C9_AngleOfLine ==
    pc = "returned" =>
        /\ angle = None <=> line_params = None
        /\ line_params # None =>
              /\ Len(angle) = 1 /\ Len(line_params) = 2
              /\ angle[1] * PiUnits = line_params[2] * 180
              /\ 0 <= line_params[2] /\ line_params[2] < PiUnits
              /\ 0 <= angle[1] /\ angle[1] < 180

\* C9, witness: a line found at an angle other than 0.
C9_Witness ==
    /\ pc = "returned"
    /\ line_params # None
    /\ line_params[2] > 0
    /\ angle[1] > 0

\* the accumulator cells that hold the maximum vote count
MaxCells(acc) ==
    LET most == {SetMax({acc[c] : c \in DOMAIN acc})}
    IN {c \in DOMAIN acc : acc[c] \in most}

\* ascending theta, then ascending rho
ScanBefore(c, d) == c[1] < d[1] \/ (c[1] = d[1] /\ c[2] <= d[2])

\* C10: every on-pixel casts a vote in a bin of each theta, and the line reported is
\* the accumulator cell with the maximum vote count, the first one in the scan
\* order (ascending theta, then ascending rho) when several cells share it.
C10_FirstMaximumCell ==
    (pc = "returned" /\ line_params # None) =>
        \A acc \in {Accumulator(image, rho, theta)} :
            LET numrho == computeNumrho(image, rho)
                best == CHOOSE c \in MaxCells(acc) : \A d \in MaxCells(acc) : ScanBefore(c, d)
            IN /\ \A n \in 0..(computeNumangle(theta) - 1), p \in OnPixels(image) :
                     /\ RhoBin(p[1], p[2], n, rho, theta, numrho) \in 0..(numrho - 1)
                     /\ acc[<<n, RhoBin(p[1], p[2], n, rho, theta, numrho)>>] >= 1
               /\ line_params = <<(2 * best[2] - (numrho - 1)) * rho, best[1] * theta>>

\* C10, witness: a line found while cells of two angles share the maximum.
C10_Witness ==
    /\ pc = "returned"
    /\ line_params # None
    /\ \E c, d \in MaxCells(Accumulator(image, rho, theta)) : c[1] # d[1]
    /\ line_params[2] > 0

(***************************************************************************)
(* Properties of the worker pool (specification SpecPool).                 *)
(***************************************************************************)
\* the cells set by the events of a slice, as <<row, column>>
EventPixels(events) == {<<events[n][2], events[n][1]>> : n \in 1..Len(events)}

\* C11: no state is carried between the calls of detect_line_angle.  In
\* whatever order the calls for the slices start and however their steps
\* interleave, the grid of the call for slice j has exactly the cells of
\* slice j's own events set, two calls on equal slices return the same angle,
\* a call raises only if the sequential loop raised, and the results merged
\* by slice index are the AngleSeries the sequential loop produced.
C11_PoolMatchesLoop ==
    pc \in {"pool", "merged"} =>
        /\ \A j \in PoolIndices :
              /\ tasks[j].stage = "built" =>
                    /\ Rows(tasks[j].image) = resolution[2]
                    /\ Cols(tasks[j].image) = resolution[1]
                    /\ OnPixels(tasks[j].image) = EventPixels(slices[j + 1])
              /\ tasks[j].stage = "raised" => error \in {"IndexError", "ValueError"}
              /\ \A l \in PoolIndices :
                    (/\ tasks[j].stage = "done"
                     /\ tasks[l].stage = "done"
                     /\ slices[j + 1] = slices[l + 1]) => tasks[j].angle = tasks[l].angle
        /\ pc = "merged" => error = "" /\ merged = detected_angles

\* C11, witness: results merged after the calls started out of slice order,
\* over slices of different events with different results.
C11_Witness ==
    /\ pc = "merged"
    /\ reordered
    /\ Len(merged) >= 2
    /\ slices[1] # slices[2]
    /\ merged[1][2] # None
    /\ merged[2][2] # None
    /\ merged[1][2] # merged[2][2]

====
